---- MODULE Spec2Model ----
(***************************************************************************)
(* DruidHandler (mindsdb/integrations/handlers/druid_handler):             *)
(* the connection manager (connect, disconnect, check_connection,         *)
(* __del__), the raw query executor (native_query) and the introspection   *)
(* (get_tables, get_columns) over a mock of the pydruid driver whose every *)
(* call may succeed or raise.                                              *)
(*                                                                         *)
(* Spec: one caller.  A handler method is one action.  Its body is an      *)
(* operator from the state at entry to the SET of its possible outcomes,   *)
(* one outcome per way the driver calls it makes can end; an outcome is    *)
(* the state at exit and either the returned value or the raised exception.*)
(*                                                                         *)
(* SpecConc: two callers in native_query on one handler, one action per    *)
(* statement, interleaved freely.                                          *)
(***************************************************************************)
EXTENDS Integers, Sequences, FiniteSets

VARIABLES is_connected,  \* self.is_connected
          connection,    \* self.connection (NoHandle stands for None)
          openCalls,     \* driver: number of calls of pydruid.db.connect
          opened,        \* driver: handles that connect() has returned
          closed,        \* driver: handles on which close() has succeeded
          log,           \* driver: the calls made by the last handler call
          last,          \* what the last handler call was and how it ended
          streak,        \* the current run of consecutive connect() calls
          pc,            \* concurrent callers: where each is in native_query
          needs,         \* concurrent callers: each one's need_to_close
          conn,          \* concurrent callers: each one's local `connection`
          resp           \* concurrent callers: the type of each one's response

vars == <<is_connected, connection, openCalls, opened, closed, log, last, streak,
          pc, needs, conn, resp>>

---------------------------------------------------------------------------
(* Bounds *)

MaxOpens == 2    \* the driver's open is called at most this many times
MaxRows == 2     \* a fetched result has at most this many rows
MaxStreak == 3   \* the length of a run of connect() calls saturates here

---------------------------------------------------------------------------
(* Values *)

\* an optional value (Python's None, or a value): None, or Some(v)
None == <<>>
Some(v) == <<v>>

\* self.connection = None
NoHandle == 0

\* the message texts a driver error can carry
Msgs == {"refused", "timeout"}

\* the query texts passed to native_query
Queries == {"SELECT 1", "DROP t"}

\* an exception raised by the driver call `site`, with message text `msg`
Exc(site, msg) == [site |-> site, msg |-> msg]
NoExc == Exc("", "")

\* str(e): the message text of the exception
str(e) == e.msg

\* RESPONSE_TYPE
TABLE == "table"
OK == "ok"
ERROR == "error"

\* StatusResponse(success), error_message unset
StatusResponse(success) == [success |-> success, error_message |-> None]

\* Response(resp_type, data_frame=..., error_message=...)
Response(resp_type, data_frame, error_message) ==
    [type |-> resp_type, data_frame |-> data_frame, error_message |-> error_message]

\* pd.DataFrame(result, columns=...)
DataFrame(result, columns) == [columns |-> columns, rows |-> result]

\* the table names passed to get_columns
TableNames == {"t1", "missing"}

\* get_tables, the text of its query
TablesQuery == "SELECT * FROM INFORMATION_SCHEMA.TABLES"

\* get_columns, the text of its query: table_name put into the text as it is
ColumnsQuery(table_name) ==
    CASE table_name = "t1" ->
           "SELECT * FROM INFORMATION_SCHEMA.COLUMNS WHERE \"TABLE_SCHEMA\" = 'druid' AND \"TABLE_NAME\" = 't1'"
      [] table_name = "missing" ->
           "SELECT * FROM INFORMATION_SCHEMA.COLUMNS WHERE \"TABLE_SCHEMA\" = 'druid' AND \"TABLE_NAME\" = 'missing'"

\* the callers that share one handler without synchronization
Callers == {"A", "B"}

\* the sequences over S of a length in lo..hi
SeqsOf(S, lo, hi) == UNION {[1..n -> S] : n \in lo..hi}

\* what the engine can answer: a column description (name, type code) and
\* the rows the tables can hold
Relations ==
    { [description |-> <<<<"TABLE_NAME", "STRING">>, <<"TABLE_TYPE", "STRING">>>>,
       tuples |-> {<<"t1", "TABLE">>, <<"t2", "VIEW">>}],
      [description |-> <<<<"COLUMN_NAME", "STRING">>, <<"ORDINAL_POSITION", "NUMBER">>,
                         <<"DATA_TYPE", "STRING">>>>,
       tuples |-> {<<"c1", "1", "BIGINT">>}] }

\* what cursor.fetchall() can return, with the cursor's description:
\* no rows (a DDL/DML statement), or 1..MaxRows rows of a relation
FetchResults ==
    {[rows |-> <<>>, description |-> None]}
    \cup UNION {{[rows |-> r, description |-> rel.description] :
                    r \in SeqsOf(rel.tuples, 1, MaxRows)} : rel \in Relations}

---------------------------------------------------------------------------
(* Outcomes of a call *)

\* the call returns v in state s
Ret(s, v) == [st |-> s, raised |-> FALSE, exc |-> NoExc, ret |-> Some(v)]

\* the call raises e in state s
Raise(s, e) == [st |-> s, raised |-> TRUE, exc |-> e, ret |-> None]

\* the value an outcome returned
Val(r) == r.ret[1]

\* the mock driver records a call: fn on handle h, with the query passed
\* ("" if none), the rows returned (<<>> if none) and the message of the
\* error it raised (None if it returned)
Logged(s, fn, h, query, rows, err) ==
    [s EXCEPT !.log = Append(@, [fn |-> fn, h |-> h, query |-> query,
                                 rows |-> rows, err |-> err])]

---------------------------------------------------------------------------
(* The driver (pydruid.db): each call succeeds or raises *)

\* a driver call that returns nothing: it succeeds, or raises with any message
DriverCall(s, fn, h, query) ==
    {Ret(Logged(s, fn, h, query, <<>>, None), None)}
    \cup {Raise(Logged(s, fn, h, query, <<>>, Some(m)), Exc(fn, m)) : m \in Msgs}

\* pydruid.db.connect(...): a new handle, or an error
driver_connect(s) ==
    IF s.openCalls >= MaxOpens THEN {}
    ELSE LET h == s.openCalls + 1
             t == [s EXCEPT !.openCalls = h]
         IN  {Ret(Logged([t EXCEPT !.opened = @ \cup {h}], "open", h, "", <<>>, None), h)}
             \cup {Raise(Logged(t, "open", NoHandle, "", <<>>, Some(m)), Exc("open", m)) : m \in Msgs}

\* connection.close(): the handle is closed, or an error and it is not
connection_close(s, h) ==
    {Ret(Logged([s EXCEPT !.closed = @ \cup {h}], "close", h, "", <<>>, None), None)}
    \cup {Raise(Logged(s, "close", h, "", <<>>, Some(m)), Exc("close", m)) : m \in Msgs}

\* connection.cursor(): a cursor on the handle (named by the handle), or an error
connection_cursor(s, h) ==
    {Ret(Logged(s, "cursor", h, "", <<>>, None), h)}
    \cup {Raise(Logged(s, "cursor", h, "", <<>>, Some(m)), Exc("cursor", m)) : m \in Msgs}

\* execute called again after it raised
cursor_execute_retry(s, h, query) ==
    UNION {IF e.raised THEN DriverCall(e.st, "execute", h, query) ELSE {e} :
             e \in DriverCall(s, "execute", h, query)}

\* cursor.execute(query)
cursor_execute(s, h, query) == DriverCall(s, "execute", h, query)

\* cursor.fetchall(): the rows (with the description), or an error
cursor_fetchall(s, h) ==
    {Ret(Logged(s, "fetchall", h, "", f.rows, None), f) : f \in FetchResults}
    \cup {Raise(Logged(s, "fetchall", h, "", <<>>, Some(m)), Exc("fetchall", m)) : m \in Msgs}

\* cursor.description, read after a fetch that returned f
cursor_description(s, h, f) == Logged(s, "description", h, "", f.description, None)

\* connection.commit()
connection_commit(s, h) == DriverCall(s, "commit", h, "")

\* cursor.close()
cursor_close(s, h) == DriverCall(s, "cursor_close", h, "")

---------------------------------------------------------------------------
(* DruidHandler *)

\* need_to_close set whatever the state at entry
need_to_close_always(s) == TRUE

\* need_to_close never set
need_to_close_never(s) == FALSE

\* need_to_close = self.is_connected is False
need_to_close(s) == s.is_connected = FALSE

\* connect() without the early return: it opens a handle on every call
connect_reopen(s) ==
    {IF r.raised THEN r
     ELSE Ret([r.st EXCEPT !.connection = Val(r), !.is_connected = TRUE], Val(r)) :
        r \in driver_connect(s)}

\* connect() setting the flag before the handle is opened
connect_flag_first(s) ==
    IF s.is_connected = TRUE
    THEN {Ret(s, s.connection)}
    ELSE {IF r.raised THEN Raise([r.st EXCEPT !.is_connected = TRUE], r.exc)
          ELSE Ret([r.st EXCEPT !.connection = Val(r), !.is_connected = TRUE], Val(r)) :
             r \in driver_connect(s)}

\* connect() that tries the handle it holds before returning it
connect_ping(s) ==
    IF s.is_connected = TRUE
    THEN {IF k.raised THEN k ELSE Ret(k.st, s.connection) :
             k \in connection_cursor(s, s.connection)}
    ELSE {IF r.raised THEN r
          ELSE Ret([r.st EXCEPT !.connection = Val(r), !.is_connected = TRUE], Val(r)) :
             r \in driver_connect(s)}

\* DruidHandler.connect
connect(s) ==
    IF s.is_connected = TRUE
    THEN {Ret(s, s.connection)}
    ELSE {IF r.raised THEN r
          ELSE Ret([r.st EXCEPT !.connection = Val(r), !.is_connected = TRUE], Val(r)) :
             r \in driver_connect(s)}

\* disconnect() without the early return: it closes whatever the flag says
disconnect_unguarded(s) ==
    {IF r.raised THEN r
     ELSE Ret([r.st EXCEPT !.is_connected = FALSE], Some(FALSE)) :
        r \in connection_close(s, s.connection)}

\* disconnect() that closes the handle and leaves the flag set
disconnect_keeps_flag(s) ==
    IF s.is_connected = FALSE
    THEN {Ret(s, None)}
    ELSE {IF r.raised THEN r ELSE Ret(r.st, Some(FALSE)) :
             r \in connection_close(s, s.connection)}

\* DruidHandler.disconnect
disconnect(s) ==
    IF s.is_connected = FALSE
    THEN {Ret(s, None)}
    ELSE {IF r.raised THEN r
          ELSE Ret([r.st EXCEPT !.is_connected = FALSE], Some(FALSE)) :
             r \in connection_close(s, s.connection)}

\* the except clause logging the error without storing its message
check_try_no_message(c) ==
    IF c.raised
    THEN StatusResponse(FALSE)
    ELSE [StatusResponse(FALSE) EXCEPT !.success = TRUE]

\* check_connection, the try and its except: the response after self.connect()
check_try(c) ==
    IF c.raised
    THEN [StatusResponse(FALSE) EXCEPT !.error_message = Some(str(c.exc))]
    ELSE [StatusResponse(FALSE) EXCEPT !.success = TRUE]

\* the finally block without the disconnect of a probe's own connection
check_finally_keep(t, response, need) ==
    {Ret(IF response.success = FALSE /\ t.is_connected = TRUE
         THEN [t EXCEPT !.is_connected = FALSE]
         ELSE t,
         response)}

\* check_connection, the finally block, entered in state t
check_finally(t, response, need) ==
    LET D == IF response.success = TRUE /\ need
             THEN disconnect(t)
             ELSE {Ret(t, None)}
    IN  {IF d.raised THEN d
         ELSE Ret(IF response.success = FALSE /\ d.st.is_connected = TRUE
                  THEN [d.st EXCEPT !.is_connected = FALSE]
                  ELSE d.st,
                  response) : d \in D}

\* DruidHandler.check_connection
check_connection(s) ==
    UNION {check_finally(c.st, check_try(c), need_to_close(s)) : c \in connect(s)}

\* the except clause answering with the text it logs, not the error's
query_except_logged_text(e) == Response(ERROR, None, Some("Error running query"))

\* native_query, the except clause: the Error envelope of exception e
query_except(e) == Response(ERROR, None, Some(str(e)))

\* the columns named by the second element of each descriptor, its type code
query_rows_type_codes(f) ==
    Response(TABLE,
             Some(DataFrame(f.rows, [i \in 1..Len(f.description) |-> f.description[i][2]])),
             None)

\* native_query, the branch that has rows: the Table envelope
query_rows(f) ==
    Response(TABLE,
             Some(DataFrame(f.rows, [i \in 1..Len(f.description) |-> f.description[i][1]])),
             None)

\* the branch without rows, the commit left out
query_no_rows_no_commit(t, connection_) ==
    {[st |-> t, response |-> Response(OK, None, None)]}

\* native_query, the branch without rows: commit, then the Ok envelope
query_no_rows(t, connection_) ==
    {IF k.raised THEN [st |-> k.st, response |-> query_except(k.exc)]
     ELSE [st |-> k.st, response |-> Response(OK, None, None)] :
        k \in connection_commit(t, connection_)}

\* native_query, the try statement: the state and the response after it
query_try(t, connection_, cursor, query) ==
    UNION {IF e.raised THEN {[st |-> e.st, response |-> query_except(e.exc)]}
           ELSE UNION {IF f.raised
                       THEN {[st |-> f.st, response |-> query_except(f.exc)]}
                       ELSE IF Val(f).rows /= <<>>
                            THEN {[st |-> cursor_description(f.st, cursor, Val(f)),
                                   response |-> query_rows(Val(f))]}
                            ELSE query_no_rows(f.st, connection_) :
                          f \in cursor_fetchall(e.st, cursor)} :
             e \in cursor_execute(t, cursor, query)}

\* the disconnect placed before cursor.close()
query_finish_disconnect_first(t, cursor, response, need) ==
    UNION {IF d.raised THEN {d}
           ELSE {IF cc.raised THEN cc ELSE Ret(cc.st, response) :
                    cc \in cursor_close(d.st, cursor)} :
             d \in (IF need = TRUE THEN disconnect(t) ELSE {Ret(t, None)})}

\* native_query, after the try: cursor.close(), the disconnect, the return
query_finish(t, cursor, response, need) ==
    UNION {IF cc.raised THEN {cc}
           ELSE IF need = TRUE
                THEN {IF d.raised THEN d ELSE Ret(d.st, response) :
                         d \in disconnect(cc.st)}
                ELSE {Ret(cc.st, response)} :
             cc \in cursor_close(t, cursor)}

\* native_query with self.connect() inside the try: its error in the envelope
native_query_connect_caught(s, query) ==
    UNION {IF c.raised THEN {Ret(c.st, query_except(c.exc))}
           ELSE UNION {IF k.raised THEN {k}
                       ELSE UNION {query_finish(b.st, Val(k), b.response, need_to_close(s)) :
                                      b \in query_try(k.st, Val(c), Val(k), query)} :
                          k \in connection_cursor(c.st, Val(c))} :
             c \in connect(s)}

\* DruidHandler.native_query
native_query(s, query) ==
    UNION {IF c.raised THEN {c}
           ELSE UNION {IF k.raised THEN {k}
                       ELSE UNION {query_finish(b.st, Val(k), b.response, need_to_close(s)) :
                                      b \in query_try(k.st, Val(c), Val(k), query)} :
                          k \in connection_cursor(c.st, Val(c))} :
             c \in connect(s)}

\* df[[a, b]] and df.rename(columns={a: a2, b: b2}) on result.data_frame in
\* state t: None has no subscript (TypeError), a frame without the columns
\* has no such keys (KeyError), else the frame of the two columns, renamed
select_rename(t, result, a, b, a2, b2) ==
    IF result.data_frame = None
    THEN Raise(t, Exc("getitem", "'NoneType' object is not subscriptable"))
    ELSE LET df == result.data_frame[1]
             At(c) == {i \in 1..Len(df.columns) : df.columns[i] = c}
         IN  IF At(a) = {} \/ At(b) = {}
             THEN Raise(t, Exc("getitem", "not in index"))
             ELSE LET i == CHOOSE i \in At(a) : TRUE
                      j == CHOOSE j \in At(b) : TRUE
                      rows == [k \in 1..Len(df.rows) |-> <<df.rows[k][i], df.rows[k][j]>>]
                  IN  Ret(t, [result EXCEPT !.data_frame = Some(DataFrame(rows, <<a2, b2>>))])

\* DruidHandler.get_tables
get_tables(s) ==
    {IF r.raised THEN r
     ELSE select_rename(r.st, Val(r), "TABLE_NAME", "TABLE_TYPE", "table_name", "table_type") :
        r \in native_query(s, TablesQuery)}

\* DruidHandler.get_columns
get_columns(s, table_name) ==
    {IF r.raised THEN r
     ELSE select_rename(r.st, Val(r), "COLUMN_NAME", "DATA_TYPE", "column_name", "data_type") :
        r \in native_query(s, ColumnsQuery(table_name))}

\* __del__ that releases nothing
del_nothing(s) == {Ret(s, None)}

\* DruidHandler.__del__
del(s) ==
    IF s.is_connected = TRUE
    THEN {IF d.raised THEN d ELSE Ret(d.st, None) : d \in disconnect(s)}
    ELSE {Ret(s, None)}

---------------------------------------------------------------------------
(* The state machine *)

\* the handler and the driver at the entry of a call, the call log empty
Self == [is_connected |-> is_connected, connection |-> connection,
         openCalls |-> openCalls, opened |-> opened, closed |-> closed,
         log |-> <<>>]

\* the number of calls of fn in the call log l
Count(l, fn) == Cardinality({i \in 1..Len(l) : l[i].fn = fn})

Min(a, b) == IF a < b THEN a ELSE b

\* the run of consecutive connect() calls that returned, the first of them
\* made while Disconnected: its length, the open calls made during it and
\* the handles returned
NoStreak == [len |-> 0, opens |-> 0, handles |-> {}]

NextStreak(op, r) ==
    IF op = "connect" /\ ~r.raised
    THEN IF ~is_connected
         THEN [len |-> 1, opens |-> Count(r.st.log, "open"), handles |-> {Val(r)}]
         ELSE IF streak.len > 0
              THEN [len |-> Min(streak.len + 1, MaxStreak),
                    opens |-> streak.opens + Count(r.st.log, "open"),
                    handles |-> streak.handles \cup {Val(r)}]
              ELSE NoStreak
    ELSE NoStreak

\* the call op(arg) ends with outcome r
Finish(op, arg, r) ==
    /\ last.op /= "__del__"
    /\ is_connected' = r.st.is_connected
    /\ connection' = r.st.connection
    /\ openCalls' = r.st.openCalls
    /\ opened' = r.st.opened
    /\ closed' = r.st.closed
    /\ log' = r.st.log
    /\ last' = [op |-> op, arg |-> arg, prev_op |-> last.op,
                pre_connected |-> is_connected, pre_connection |-> connection,
                raised |-> r.raised, exc |-> r.exc, ret |-> r.ret]
    /\ streak' = NextStreak(op, r)
    /\ UNCHANGED <<pc, needs, conn, resp>>

Init ==
    /\ is_connected = FALSE
    /\ connection = NoHandle
    /\ openCalls = 0
    /\ opened = {}
    /\ closed = {}
    /\ log = <<>>
    /\ last = [op |-> "init", arg |-> "", prev_op |-> "init",
               pre_connected |-> FALSE, pre_connection |-> NoHandle,
               raised |-> FALSE, exc |-> NoExc, ret |-> None]
    /\ streak = NoStreak
    /\ pc = [c \in Callers |-> "idle"]
    /\ needs = [c \in Callers |-> FALSE]
    /\ conn = [c \in Callers |-> NoHandle]
    /\ resp = [c \in Callers |-> ""]

Connect == \E r \in connect(Self) : Finish("connect", "", r)

Disconnect == \E r \in disconnect(Self) : Finish("disconnect", "", r)

CheckConnection == \E r \in check_connection(Self) : Finish("check_connection", "", r)

NativeQuery == \E q \in Queries : \E r \in native_query(Self, q) : Finish("native_query", q, r)

GetTables == \E r \in get_tables(Self) : Finish("get_tables", "", r)

GetColumns == \E t \in TableNames : \E r \in get_columns(Self, t) : Finish("get_columns", t, r)

\* the handler is destroyed: no call follows
Del == \E r \in del(Self) : Finish("__del__", "", r)

Next ==
    \/ Connect
    \/ Disconnect
    \/ CheckConnection
    \/ NativeQuery
    \/ GetTables
    \/ GetColumns
    \/ Del

Spec == Init /\ [][Next]_vars

---------------------------------------------------------------------------
(* Two callers in native_query on one handler, statement by statement *)

\* caller c moves to label l
Goto(c, l) == pc' = [pc EXCEPT ![c] = l]

\* the driver's state after the driver call with outcome r
Driver(r) ==
    /\ openCalls' = r.st.openCalls
    /\ opened' = r.st.opened
    /\ closed' = r.st.closed

\* line 130: need_to_close = self.is_connected is False
Begin(c) ==
    /\ pc[c] = "idle"
    /\ needs' = [needs EXCEPT ![c] = need_to_close(Self)]
    /\ Goto(c, "connect")
    /\ UNCHANGED <<is_connected, connection, openCalls, opened, closed, log, last, streak, conn, resp>>

\* lines 70-71: if self.is_connected is True: return self.connection
ConnectGuard(c) ==
    /\ pc[c] = "connect"
    /\ IF is_connected = TRUE
       THEN conn' = [conn EXCEPT ![c] = connection] /\ Goto(c, "cursor")
       ELSE conn' = conn /\ Goto(c, "open")
    /\ UNCHANGED <<is_connected, connection, openCalls, opened, closed, log, last, streak, needs, resp>>

\* lines 73-80: self.connection = connect(...)
Open(c) ==
    /\ pc[c] = "open"
    /\ \E r \in driver_connect(Self) :
          /\ Driver(r)
          /\ IF r.raised
             THEN connection' = connection /\ Goto(c, "raised")
             ELSE connection' = Val(r) /\ Goto(c, "flag")
    /\ UNCHANGED <<is_connected, log, last, streak, needs, conn, resp>>

\* line 81: self.is_connected = True
SetFlag(c) ==
    /\ pc[c] = "flag"
    /\ is_connected' = TRUE
    /\ Goto(c, "return")
    /\ UNCHANGED <<connection, openCalls, opened, closed, log, last, streak, needs, conn, resp>>

\* lines 83 and 132: connection = (return self.connection)
ReturnConnection(c) ==
    /\ pc[c] = "return"
    /\ conn' = [conn EXCEPT ![c] = connection]
    /\ Goto(c, "cursor")
    /\ UNCHANGED <<is_connected, connection, openCalls, opened, closed, log, last, streak, needs, resp>>

\* caller c's response becomes one of type t
Respond(c, t) == resp' = [resp EXCEPT ![c] = t]

\* a driver call of caller c at label l that changes nothing of the handler:
\* the caller goes to ok when it returns and to failed when it raises
Step(c, l, R, ok, failed) ==
    /\ pc[c] = l
    /\ \E r \in R : Driver(r) /\ Goto(c, IF r.raised THEN failed ELSE ok)
    /\ UNCHANGED <<is_connected, connection, log, last, streak, needs, conn, resp>>

\* the same for a call inside the try: an error goes to the except clause,
\* which makes the Error response (lines 149-154), and on to line 156
Try(c, l, R, ok, t) ==
    /\ pc[c] = l
    /\ \E r \in R :
          /\ Driver(r)
          /\ IF r.raised
             THEN Goto(c, "cursor_close") /\ Respond(c, ERROR)
             ELSE Goto(c, ok) /\ Respond(c, t)
    /\ UNCHANGED <<is_connected, connection, log, last, streak, needs, conn>>

\* line 133: cursor = connection.cursor()
Cursor(c) == Step(c, "cursor", connection_cursor(Self, conn[c]), "execute", "raised")

\* line 136: cursor.execute(query); an error goes to the except clause
Execute(c) ==
    \E q \in Queries : Try(c, "execute", cursor_execute(Self, conn[c], q), "fetch", resp[c])

\* lines 137-145: result = cursor.fetchall(); if result: the Table response
Fetch(c) ==
    /\ pc[c] = "fetch"
    /\ \E r \in cursor_fetchall(Self, conn[c]) :
          /\ Driver(r)
          /\ IF r.raised
             THEN Goto(c, "cursor_close") /\ Respond(c, ERROR)
             ELSE IF Val(r).rows /= <<>>
                  THEN Goto(c, "cursor_close") /\ Respond(c, query_rows(Val(r)).type)
                  ELSE Goto(c, "commit") /\ resp' = resp
    /\ UNCHANGED <<is_connected, connection, log, last, streak, needs, conn>>

\* lines 147-148: connection.commit(), the Ok response
Commit(c) == Try(c, "commit", connection_commit(Self, conn[c]), "cursor_close", OK)

\* lines 156-157: cursor.close(); if need_to_close is True
CursorClose(c) ==
    Step(c, "cursor_close", cursor_close(Self, conn[c]),
         IF needs[c] = TRUE THEN "disconnect" ELSE "done", "raised")

\* lines 90-91: if self.is_connected is False: return
DisconnectGuard(c) ==
    /\ pc[c] = "disconnect"
    /\ Goto(c, IF is_connected = FALSE THEN "done" ELSE "close")
    /\ UNCHANGED <<is_connected, connection, openCalls, opened, closed, log, last, streak, needs, conn, resp>>

\* line 93: self.connection.close()
Close(c) == Step(c, "close", connection_close(Self, connection), "unflag", "raised")

\* line 94: self.is_connected = False
ClearFlag(c) ==
    /\ pc[c] = "unflag"
    /\ is_connected' = FALSE
    /\ Goto(c, "done")
    /\ UNCHANGED <<connection, openCalls, opened, closed, log, last, streak, needs, conn, resp>>

NextConc ==
    \E c \in Callers :
        \/ Begin(c)
        \/ ConnectGuard(c)
        \/ Open(c)
        \/ SetFlag(c)
        \/ ReturnConnection(c)
        \/ Cursor(c)
        \/ Execute(c)
        \/ Fetch(c)
        \/ Commit(c)
        \/ CursorClose(c)
        \/ DisconnectGuard(c)
        \/ Close(c)
        \/ ClearFlag(c)

SpecConc == Init /\ [][NextConc]_vars

---------------------------------------------------------------------------
(* Observations of the last call *)

\* the positions of the calls of fn in the log of the last call
Calls(fn) == {i \in 1..Len(log) : log[i].fn = fn}

\* the positions of the calls in the log of the last call that raised
Failed == {i \in 1..Len(log) : log[i].err /= None}

\* the last call was op and it returned (it raised nothing)
Returned(op) == last.op = op /\ ~last.raised

\* the value the last call returned
Result == last.ret[1]

---------------------------------------------------------------------------
(* C1..C10 *)

\* C1: a native_query made while Disconnected, whatever its outcome (rows,
\* no rows, or a failure of cursor creation, execute, fetch, commit or
\* cursor close), ends Disconnected with the connection it opened closed.
C1_ImplicitConnectionReleased ==
    (/\ last.op = "native_query"
     /\ ~last.pre_connected
     /\ Calls("close") \cap Failed = {})
    => /\ ~is_connected
       /\ \A i \in Calls("open") \ Failed : log[i].h \in closed

\* C2: a native_query made while Connected that returns a Table, Ok or
\* Error envelope called neither the driver's open nor close, worked on the
\* handle it found and leaves the manager Connected with that handle, open.
C2_ConnectedCallReusesHandle ==
    (Returned("native_query") /\ last.pre_connected)
    => /\ Result.type \in {TABLE, OK, ERROR}
       /\ Calls("open") = {}
       /\ Calls("close") = {}
       /\ \A i \in 1..Len(log) : log[i].h = last.pre_connection
       /\ is_connected
       /\ connection = last.pre_connection
       /\ connection \in opened \ closed

C2_Witness ==
    /\ Returned("native_query")
    /\ last.pre_connected
    /\ Result.type = ERROR
    /\ Calls("cursor_close") /= {}

\* C3: native_query and check_connection raise nothing: when a driver call
\* they make fails, native_query returns an Error envelope and
\* check_connection a status with success false, with the error's message.
C3_NoExceptionEscapes ==
    /\ last.op \in {"native_query", "check_connection"} => ~last.raised
    /\ (Returned("native_query") /\ Failed /= {})
       => /\ Result.type = ERROR
          /\ \E i \in Failed : Result.error_message = log[i].err
    /\ (Returned("check_connection") /\ Failed /= {})
       => /\ Result.success = FALSE
          /\ \E i \in Failed : Result.error_message = log[i].err

\* C4: connect() on a Connected manager returns the handle it holds and
\* calls no driver function; a run of consecutive connect() calls that
\* starts Disconnected has called open once and returned one handle.
C4_ConnectIdempotent ==
    /\ (last.op = "connect" /\ last.pre_connected)
       => /\ ~last.raised
          /\ Result = last.pre_connection
          /\ log = <<>>
          /\ is_connected
          /\ connection = last.pre_connection
    /\ streak.len >= 1
       => /\ streak.opens = 1
          /\ streak.handles = {connection}
          /\ is_connected

C4_Witness ==
    /\ streak.len >= 2
    /\ last.op = "connect"
    /\ last.pre_connected
    /\ openCalls >= 1

\* C5: a check_connection that returns success leaves the state it found:
\* Connected with the same open handle and no driver call, or Disconnected
\* with the one handle it opened closed; and the probe of a Disconnected
\* manager whose open and close succeed does return success.
C5_ProbeLeavesState ==
    /\ (Returned("check_connection") /\ Result.success = TRUE /\ last.pre_connected)
       => /\ log = <<>>
          /\ is_connected
          /\ connection = last.pre_connection
          /\ connection \in opened \ closed
    /\ (Returned("check_connection") /\ Result.success = TRUE /\ ~last.pre_connected)
       => /\ ~is_connected
          /\ Cardinality(Calls("open")) = 1
          /\ \A i \in Calls("open") : log[i].h \in closed
    /\ (last.op = "check_connection" /\ ~last.pre_connected /\ Failed = {})
       => /\ ~last.raised
          /\ Result.success = TRUE

C5_Witness ==
    /\ Returned("check_connection")
    /\ ~last.pre_connected
    /\ Result.success = TRUE
    /\ Calls("close") /= {}
    /\ ~is_connected

\* C6: a check_connection that returns success false carries the message of
\* the error that was raised, and the manager is Disconnected afterwards.
C6_FailedProbeDisconnected ==
    (Returned("check_connection") /\ Result.success = FALSE)
    => /\ Failed /= {}
       /\ \A i \in Failed : Result.error_message = log[i].err
       /\ ~is_connected

C6_Witness ==
    /\ Returned("check_connection")
    /\ Result.success = FALSE
    /\ Result.error_message = Some("timeout")

\* C7: disconnect() on a Disconnected manager calls no driver function and
\* leaves it Disconnected; on a Connected manager it calls close once, on
\* the handle held, and when it returns the handle is closed and the state
\* Disconnected (so a disconnect() after a disconnect() closes nothing).
C7_DisconnectIdempotent ==
    /\ (last.op = "disconnect" /\ ~last.pre_connected)
       => /\ ~last.raised
          /\ log = <<>>
          /\ ~is_connected
    /\ (last.op = "disconnect" /\ last.pre_connected)
       => /\ Len(log) = 1
          /\ log[1].fn = "close"
          /\ log[1].h = last.pre_connection
          /\ ~last.raised => (~is_connected /\ last.pre_connection \in closed)

C7_Witness ==
    /\ Returned("disconnect")
    /\ last.prev_op = "disconnect"
    /\ ~last.pre_connected
    /\ last.pre_connection \in closed

\* C8: connect() on a Disconnected manager calls open once; when open
\* raises, connect() raises that error and the state stays Disconnected;
\* the flag is only ever set with an opened handle in self.connection.
C8_FailedConnectStaysDisconnected ==
    /\ (last.op = "connect" /\ ~last.pre_connected)
       => /\ Len(log) = 1
          /\ log[1].fn = "open"
          /\ log[1].err /= None
             => /\ last.raised
                /\ last.exc.site = "open"
                /\ Some(str(last.exc)) = log[1].err
                /\ ~is_connected
                /\ connection = last.pre_connection
    /\ is_connected => connection \in opened

C8_Witness ==
    /\ last.op = "connect"
    /\ ~last.pre_connected
    /\ last.raised
    /\ ~is_connected

\* C9: when execute, fetchall or commit raises inside native_query, that
\* exception does not leave native_query (only a later failure of
\* cursor.close() or of the connection's close() can), and a native_query
\* that returns then returns the Error envelope with that error's message.
C9_ExecutionErrorInEnvelope ==
    \A i \in (Calls("execute") \cup Calls("fetchall") \cup Calls("commit")) \cap Failed :
        last.op = "native_query"
        => /\ last.raised => last.exc.site \in {"cursor_close", "close"}
           /\ (Failed = {i}) => ~last.raised
           /\ ~last.raised => Result = Response(ERROR, None, log[i].err)

C9_Witness ==
    /\ Returned("native_query")
    /\ Calls("fetchall") \cap Failed /= {}
    /\ Result.type = ERROR

\* C10: in native_query, commit is called exactly when fetchall returned no
\* rows (right after it, on the connection, once), so never after rows and
\* never after a failed execute or fetch; when the commit succeeds and the
\* call returns, it returns the Ok envelope without payload.
C10_CommitOnlyWithoutRows ==
    last.op = "native_query"
    => /\ \A i \in Calls("fetchall") \ Failed :
              log[i].rows = <<>>
              => (i < Len(log) /\ log[i + 1].fn = "commit" /\ log[i + 1].h = connection)
       /\ \A j \in Calls("commit") :
              /\ j > 1
              /\ log[j - 1].fn = "fetchall"
              /\ log[j - 1].err = None
              /\ log[j - 1].rows = <<>>
       /\ Cardinality(Calls("commit")) <= 1
       /\ (~last.raised /\ Calls("commit") /= {} /\ Calls("commit") \cap Failed = {})
          => Result = Response(OK, None, None)
       /\ (~last.raised /\ Result.type = OK) => Calls("commit") /= {}

C10_Witness ==
    /\ Returned("native_query")
    /\ Result.type = OK
    /\ Calls("commit") /= {}
    /\ Calls("fetchall") /= {}

---------------------------------------------------------------------------
(* C11..C20 *)

\* C11: a native_query that returns a Table envelope carries the rows that
\* fetchall returned, in their order, and as columns the first element of
\* each descriptor of cursor.description, in their order; a native_query
\* that returns after a fetch with rows returns a Table envelope.
C11_TableHoldsFetchedRows ==
    /\ (Returned("native_query") /\ Result.type = TABLE)
       => \E i \in Calls("fetchall") \ Failed : \E j \in Calls("description") :
             LET df == Result.data_frame[1]
             IN  /\ Result.data_frame /= None
                 /\ Result.error_message = None
                 /\ df.rows = log[i].rows
                 /\ Len(df.rows) = Len(log[i].rows)
                 /\ Len(df.columns) = Len(log[j].rows)
                 /\ \A k \in 1..Len(df.columns) : df.columns[k] = log[j].rows[k][1]
    /\ Returned("native_query")
       => \A i \in Calls("fetchall") \ Failed :
             log[i].rows /= <<>> => Result.type = TABLE

C11_Witness ==
    /\ Returned("native_query")
    /\ Result.type = TABLE
    /\ Result.data_frame[1].columns = <<"TABLE_NAME", "TABLE_TYPE">>
    /\ Result.data_frame[1].rows = <<<<"t2", "VIEW">>, <<"t1", "TABLE">>>>

\* C12: when the native_query inside get_tables ends in an Error envelope
\* (execute, fetchall or commit raised and nothing else did), get_tables
\* raises nothing and returns that envelope, its variant and message unchanged.
C12_ErrorPassedThrough ==
    (/\ last.op = "get_tables"
     /\ Failed /= {}
     /\ Failed \subseteq Calls("execute") \cup Calls("fetchall") \cup Calls("commit"))
    => /\ ~last.raised
       /\ \E i \in Failed : Result = Response(ERROR, None, log[i].err)

\* C13: when the metadata query of get_tables or get_columns matches no rows
\* (fetchall returns no rows and no driver call fails, so native_query
\* answers Ok), the call raises nothing and returns an envelope.
C13_NoRowsAnswered ==
    (/\ last.op \in {"get_tables", "get_columns"}
     /\ Failed = {}
     /\ \E i \in Calls("fetchall") : log[i].rows = <<>>)
    => /\ ~last.raised
       /\ Result.type \in {TABLE, OK, ERROR}

\* C14: __del__ on a Connected handler calls close once, on the handle held,
\* which is closed when that close succeeds; __del__ on a Disconnected
\* handler calls no driver function.
C14_TeardownReleases ==
    /\ (last.op = "__del__" /\ last.pre_connected)
       => /\ Len(log) = 1
          /\ log[1].fn = "close"
          /\ log[1].h = last.pre_connection
          /\ log[1].err = None => (last.pre_connection \in closed /\ ~is_connected)
    /\ (last.op = "__del__" /\ ~last.pre_connected)
       => /\ log = <<>>
          /\ ~is_connected
    /\ last.op = "__del__" => (Calls("close") /= {} <=> last.pre_connected)

C14_Witness ==
    /\ Returned("__del__")
    /\ last.pre_connected
    /\ last.prev_op = "native_query"
    /\ last.pre_connection \in closed
    /\ opened \ closed = {}

\* the last call ran native_query: directly, or inside get_tables/get_columns
RanQuery == last.op \in {"native_query", "get_tables", "get_columns"}

\* C15: when the driver's open raises inside a native_query made while
\* Disconnected, native_query raises that error and returns no envelope;
\* no cursor is created, nothing is executed, the state stays Disconnected.
C15_ConnectErrorPropagates ==
    (last.op = "native_query" /\ Calls("open") \cap Failed /= {})
    => /\ ~last.pre_connected
       /\ last.raised
       /\ last.ret = None
       /\ last.exc.site = "open"
       /\ Some(str(last.exc)) = log[1].err
       /\ Len(log) = 1
       /\ Calls("cursor") = {}
       /\ Calls("execute") = {}
       /\ ~is_connected

C15_Witness ==
    /\ last.op = "native_query"
    /\ last.raised
    /\ last.exc = Exc("open", "timeout")
    /\ ~is_connected

\* C16: a native_query calls execute at most once: once, with the query it
\* was given, when the connection and the cursor were acquired (also when
\* that execute raises), and not at all otherwise.
C16_ExecuteOnce ==
    RanQuery
    => /\ Cardinality(Calls("execute")) <= 1
       /\ Calls("cursor") \ Failed /= {} <=> Cardinality(Calls("execute")) = 1
       /\ \A i \in Calls("execute") :
              /\ i > 1
              /\ log[i - 1].fn = "cursor"
              /\ log[i - 1].err = None
              /\ log[i].h = log[i - 1].h
              /\ last.op = "native_query" => log[i].query = last.arg
              /\ last.op = "get_tables" => log[i].query = TablesQuery
              /\ last.op = "get_columns" => log[i].query = ColumnsQuery(last.arg)

C16_Witness ==
    /\ Returned("native_query")
    /\ Calls("execute") \cap Failed /= {}
    /\ Cardinality(Calls("execute")) = 1
    /\ Result.type = ERROR

\* the handles opened and not closed
Unclosed == opened \ closed

\* C18: after every call of a single caller, the flag is set exactly when
\* one opened handle is unclosed, and that handle is self.connection; at
\* most one handle is unclosed; connect() returns an unclosed handle.
C18_FlagMatchesHandle ==
    /\ is_connected <=> Cardinality(Unclosed) = 1
    /\ Cardinality(Unclosed) <= 1
    /\ is_connected => Unclosed = {connection}
    /\ Returned("connect") => Result \in Unclosed

C18_Witness ==
    /\ last.op = "get_columns"
    /\ last.raised
    /\ Calls("fetchall") \cap Failed /= {}
    /\ closed /= {}
    /\ ~is_connected
    /\ Unclosed = {}

\* C19: check_connection on a Connected manager calls no driver function
\* and returns success; so it returns failure only when it was called
\* Disconnected, and in no state does a connect() raise with the flag
\* set, which is what the reset of the flag in the finally block needs.
C19_ProbeOfConnectedSucceeds ==
    /\ (last.op = "check_connection" /\ last.pre_connected)
       => /\ log = <<>>
          /\ ~last.raised
          /\ Result.success = TRUE
    /\ (Returned("check_connection") /\ Result.success = FALSE)
       => /\ ~last.pre_connected
          /\ Unclosed = {}
    /\ \A c \in connect(Self) : c.raised => (~is_connected /\ ~c.st.is_connected)

C19_Witness ==
    /\ Returned("check_connection")
    /\ last.pre_connected
    /\ last.prev_op = "native_query"
    /\ Result.success = TRUE
    /\ is_connected

\* C20: a native_query that returns (Table, Ok or Error) created one cursor
\* and closed it, after every other call on it; when the call opened the
\* connection itself, the connection is closed after the cursor.
C20_CursorClosedFirst ==
    Returned("native_query")
    => /\ Result.type \in {TABLE, OK, ERROR}
       /\ Cardinality(Calls("cursor")) = 1
       /\ Cardinality(Calls("cursor_close")) = 1
       /\ Calls("cursor_close") \cap Failed = {}
       /\ \A i \in Calls("cursor") : \A j \in Calls("cursor_close") :
              /\ i < j
              /\ log[i].h = log[j].h
              /\ \A k \in Calls("execute") \cup Calls("fetchall") \cup Calls("commit") :
                     i < k /\ k < j
       /\ ~last.pre_connected
          => /\ Cardinality(Calls("close")) = 1
             /\ \A j \in Calls("cursor_close") : \A k \in Calls("close") : j < k
       /\ last.pre_connected => Calls("close") = {}

C20_Witness ==
    /\ Returned("native_query")
    /\ ~last.pre_connected
    /\ Result.type = TABLE
    /\ Calls("close") /= {}
    /\ Calls("cursor_close") /= {}

---------------------------------------------------------------------------
(* C17: two callers *)

\* caller c has left native_query, by a return or by an exception
Left(c) == pc[c] \in {"done", "raised"}

\* caller c holds a cursor on its connection and has calls to make on it
Executing(c) == pc[c] \in {"execute", "fetch", "commit", "cursor_close"}

\* the flag and the handles disagree: a handle is unclosed with the flag
\* clear, or more than one handle is unclosed
Leaked == Cardinality(Unclosed) > 1 \/ (Unclosed /= {} /\ ~is_connected)

\* C17: with two callers in native_query on one handler, from Disconnected:
\* when both have returned and both had set need_to_close the flag is
\* clear, yet a handle can be left unclosed with the flag clear, and that
\* only after two opens by callers that both set need_to_close; and a
\* caller can be left executing on a closed handle, closed by the other
\* caller, which had set need_to_close.
C17_RacesOfTwoCallers ==
    /\ (\A c \in Callers : pc[c] = "done" /\ needs[c]) => ~is_connected
    /\ ((\A c \in Callers : Left(c)) /\ Leaked)
       => /\ openCalls = 2
          /\ \A c \in Callers : needs[c]
    /\ \A c \in Callers :
          (Executing(c) /\ conn[c] \in closed)
          => \E d \in Callers \ {c} : needs[d] /\ pc[d] \in {"unflag", "done"}

\* open was called twice and, both callers having returned, one handle is
\* left unclosed with the flag clear
C17_Witness ==
    /\ \A c \in Callers : pc[c] = "done"
    /\ openCalls = 2
    /\ Cardinality(opened) = 2
    /\ Cardinality(Unclosed) = 1
    /\ ~is_connected

\* one caller has closed the handle the other is still executing on
C17_UseAfterClose ==
    \E c \in Callers : \E d \in Callers \ {c} :
        /\ pc[c] = "execute"
        /\ conn[c] \in closed
        /\ pc[d] = "done"

====
